---- MODULE Spec2Model ----
(***************************************************************************)
(* Model of scripts/update.py (recipe updater) and scripts/build.py        *)
(* (recipe builder).                                                       *)
(*                                                                         *)
(* Strings are sequences of tokens: a token is an atomic substring whose   *)
(* character-level properties (is whitespace, is 64 lowercase hex digits,  *)
(* contains "sha", contains a brace) are given by the token tables below.  *)
(* The empty string is <<>>; Python's None for an Optional[str] is None.   *)
(***************************************************************************)
EXTENDS Integers, Sequences, FiniteSets, TLC

\* --------------------------------------------------------------- bounds
MaxRecipes == 2

\* --------------------------------------------------------------- strings
None == <<"#None">>

Truthy(s) == s # None /\ s # <<>>

MinOf(S) == CHOOSE x \in S : \A y \in S : x <= y

MaxOf(S) == CHOOSE x \in S : \A y \in S : x >= y

IsWs(t) == t = " "

\* str.strip(): the text from its first to its last non-blank token
Strip(s) ==
    LET solid == {i \in 1..Len(s) : ~IsWs(s[i])}
    IN  IF solid = {} THEN <<>> ELSE SubSeq(s, MinOf(solid), MaxOf(solid))

EndsWith(s, suf) ==
    Len(suf) <= Len(s) /\ SubSeq(s, Len(s) - Len(suf) + 1, Len(s)) = suf

StartsWith(s, pre) == Len(pre) <= Len(s) /\ SubSeq(s, 1, Len(pre)) = pre

\* s.split()[0] of a stripped, non-empty s
FirstPart(s) ==
    LET ws == {i \in 1..Len(s) : IsWs(s[i])}
    IN  IF ws = {} THEN s ELSE SubSeq(s, 1, MinOf(ws) - 1)

\* 64 lowercase hexadecimal characters
Hex64Lower == {"hex64_old", "hex64_d", "hex64_f", "hex64_g", "hex64_m", "hex64_n", "hex64_dl"}

IsSha256Hex(s) == Len(s) = 1 /\ s[1] \in Hex64Lower

\* hashlib.sha256(data).hexdigest(): one 64-character lowercase hex token
sha256_hex_bytes(data) == <<"hex64_dl">>

\* ------------------------------------------------- digest_from_checksum_txt
digest_from_checksum_txt_startswith(filename, txt) ==
    LET hits == {i \in 1..Len(txt) :
                    Strip(txt[i]) # <<>> /\ StartsWith(Strip(txt[i]), filename)}
    IN  IF hits = {} THEN None ELSE FirstPart(Strip(txt[MinOf(hits)]))

\* lines 58-68: the first word of the first non-blank line that ends with the
\* file name (line.split() of such a line is never empty)
digest_from_checksum_txt(filename, txt) ==
    LET hits == {i \in 1..Len(txt) :
                    Strip(txt[i]) # <<>> /\ EndsWith(Strip(txt[i]), filename)}
    IN  IF hits = {} THEN None ELSE FirstPart(Strip(txt[MinOf(hits)]))

\* ------------------------------------------------- inline digest (190-196)
\* tokens matched by sha-?256 under re.IGNORECASE
ShaPrefixToks == {"sha256", "sha-256", "SHA256"}

DigestNoMatch(digest) == None

\* re.search(r"sha-?256:?(.*)", str(digest), re.IGNORECASE); m.group(1).strip()
\* None when the search finds nothing
DigestMatch(digest) ==
    LET idx == {i \in 1..Len(digest) : digest[i] \in ShaPrefixToks}
    IN  IF idx = {} THEN None
        ELSE LET rest == SubSeq(digest, MinOf(idx) + 1, Len(digest))
                 body == IF rest # <<>> /\ Head(rest) = ":" THEN Tail(rest) ELSE rest
             IN  Strip(body)

\* ------------------------------------------------- platform predicates
\* An if-condition is the set of the keywords it contains ("x" in if_cond);
\* {} is the empty string, {"win"} a non-empty predicate with no known keyword.
Has(if_cond, a, b) == a \in if_cond /\ b \in if_cond

\* str.lower() of a repository name
Lower(r) == IF r = "Hatchet" THEN "hatchet" ELSE r

\* str.lstrip("v") of a tag: every leading "v" goes
LStripV(t) ==
    LET rest == {i \in 1..Len(t) : t[i] # "v"}
    IN  IF rest = {} THEN <<>> ELSE SubSeq(t, MinOf(rest), Len(t))

gcs_platform_swapped(if_cond) ==
    IF Has(if_cond, "linux", "x86_64") THEN <<"linux-arm64">>
    ELSE IF Has(if_cond, "linux", "aarch64") THEN <<"linux-x64">>
    ELSE IF Has(if_cond, "osx", "x86_64") THEN <<"darwin-arm64">>
    ELSE IF Has(if_cond, "osx", "arm64") THEN <<"darwin-x64">>
    ELSE None

gcs_platform_for_if_cond(if_cond) ==
    IF Has(if_cond, "linux", "x86_64") THEN <<"linux-x64">>
    ELSE IF Has(if_cond, "linux", "aarch64") THEN <<"linux-arm64">>
    ELSE IF Has(if_cond, "osx", "x86_64") THEN <<"darwin-x64">>
    ELSE IF Has(if_cond, "osx", "arm64") THEN <<"darwin-arm64">>
    ELSE None

\* the first of the four OS/architecture tests of a table that the predicate
\* passes, "" when it passes none
PlatOf(if_cond) ==
    IF Has(if_cond, "linux", "x86_64") THEN "linux-x86_64"
    ELSE IF Has(if_cond, "linux", "aarch64") THEN "linux-aarch64"
    ELSE IF Has(if_cond, "osx", "x86_64") THEN "osx-x86_64"
    ELSE IF Has(if_cond, "osx", "arm64") THEN "osx-arm64"
    ELSE ""

\* lines 111-120
HatchetName(p, v) ==
    <<"hatchet_">> \o v \o
    <<CASE p = "linux-x86_64" -> "_Linux_x86_64.tar.gz"
        [] p = "linux-aarch64" -> "_Linux_arm64.tar.gz"
        [] p = "osx-x86_64" -> "_Darwin_x86_64.tar.gz"
        [] p = "osx-arm64" -> "_Darwin_arm64.tar.gz">>

\* lines 122-131
CopilotName(p) ==
    <<CASE p = "linux-x86_64" -> "copilot-linux-x64"
        [] p = "linux-aarch64" -> "copilot-linux-arm64"
        [] p = "osx-x86_64" -> "copilot-darwin-x64"
        [] p = "osx-arm64" -> "copilot-darwin-arm64",
      ".tar.gz">>

\* lines 133-142
OpencodeName(p) ==
    CASE p = "linux-x86_64" -> <<"opencode-linux-x64", ".tar.gz">>
      [] p = "linux-aarch64" -> <<"opencode-linux-arm64", ".tar.gz">>
      [] p = "osx-x86_64" -> <<"opencode-darwin-x64", ".zip">>
      [] p = "osx-arm64" -> <<"opencode-darwin-arm64", ".zip">>

\* lines 144-153
RadarName(p, v) ==
    <<"radar_v">> \o v \o
    <<CASE p = "linux-x86_64" -> "_linux_amd64.tar.gz"
        [] p = "linux-aarch64" -> "_linux_arm64.tar.gz"
        [] p = "osx-x86_64" -> "_darwin_amd64.tar.gz"
        [] p = "osx-arm64" -> "_darwin_arm64.tar.gz">>

\* lines 155-160
GarageName(if_cond, v) ==
    IF Has(if_cond, "linux", "x86_64") THEN <<"garage-webui-v">> \o v \o <<"-linux-amd64">>
    ELSE IF Has(if_cond, "linux", "arm64") THEN <<"garage-webui-v">> \o v \o <<"-linux-arm64">>
    ELSE None

asset_name_for(if_cond, version_tag, repo) ==
    LET v == LStripV(version_tag)
        r == Lower(repo)
        p == PlatOf(if_cond)
    IN  IF repo = "" THEN None
        ELSE IF r = "hatchet" /\ p # "" THEN HatchetName(p, v)
        ELSE IF r = "copilot-cli" /\ p # "" THEN CopilotName(p)
        ELSE IF r = "opencode" /\ p # "" THEN OpencodeName(p)
        ELSE IF r = "radar" /\ p # "" THEN RadarName(p, v)
        ELSE IF r = "garage-webui" THEN GarageName(if_cond, v)
        ELSE None

\* ------------------------------------------------- recipe URL templates
VersionTok == "${{ version }}"

\* tokens that hold a "{"
BraceToks == {"${{ version }}", "${{version}}", "${{ arch }}", "${{ gcs_base }}"}

\* the archive extensions of the pattern (?:tar\.gz|zip)
ArchiveExts == {".tar.gz", ".zip"}

\* CLAUDE_CODE_GCS_BUCKET, one token (it holds slashes of its own, none of
\* them the URL's last one)
CLAUDE_CODE_GCS_BUCKET == 
    "https://storage.googleapis.com/claude-code-dist-86c565f3-f756-42ad-8dfa-d59b1c096819/claude-code-releases"

\* str.replace(old, new) at token granularity
RECURSIVE Concat(_, _)
Concat(parts, n) == IF n = 0 THEN <<>> ELSE Concat(parts, n - 1) \o parts[n]

Replace(s, old, new) ==
    Concat([i \in 1..Len(s) |-> IF s[i] = old THEN new ELSE <<s[i]>>], Len(s))

\* the text after the last "/", None when there is no "/" or nothing follows
LastSegment(url) ==
    LET sl == {i \in 1..Len(url) : url[i] = "/"}
    IN  IF sl = {} \/ MaxOf(sl \cup {0}) = Len(url) THEN None
        ELSE SubSeq(url, MaxOf(sl) + 1, Len(url))

\* lines 176-180: no brace may be left, and the last path segment must end
\* with an archive extension
PatternName(url_pattern) ==
    LET seg == LastSegment(url_pattern)
    IN  IF \E i \in 1..Len(url_pattern) : url_pattern[i] \in BraceToks
        THEN None
        ELSE IF seg # None /\ Len(seg) >= 2 /\ seg[Len(seg)] \in ArchiveExts
             THEN seg
             ELSE None

pattern_without_substitution(recipe_url, if_cond, version) ==
    IF ~Truthy(recipe_url) THEN None ELSE PatternName(Strip(recipe_url))

\* lines 172-174: the placeholder is replaced, the result stripped, and the
\* stripped text examined
asset_name_from_recipe_pattern(recipe_url, if_cond, version) ==
    IF ~Truthy(recipe_url) THEN None
    ELSE CHOOSE name \in
             {PatternName(url_pattern) : url_pattern \in
                 {Strip(replaced) : replaced \in
                     {Replace(recipe_url, VersionTok,
                              IF version # None THEN version ELSE <<>>)}}} : TRUE

\* lines 370-375: the plain file name of an entry with no if-condition
PlainName(expected, if_cond, recipe_url) ==
    IF ~Truthy(expected) /\ if_cond = {} /\ LastSegment(recipe_url) # None
    THEN LastSegment(recipe_url)
    ELSE expected

\* lines 364-375: the table, then the URL pattern, then the plain file name
ResolveExpected(if_cond, tag, version, repo, recipe_url) ==
    CHOOSE name \in
        {PlainName(e2, if_cond, recipe_url) : e2 \in
            {IF Truthy(e1) THEN e1
             ELSE asset_name_from_recipe_pattern(recipe_url, if_cond, version) :
                 e1 \in {asset_name_for(if_cond, tag, repo)}}} : TRUE

\* ------------------------------------------------- release assets
\* an asset record: name (tokens), url (has a browser_download_url), digest
NoAsset == 0

find_asset_first(assets, name) == IF assets = <<>> THEN NoAsset ELSE 1

\* the index of the first asset of that name, NoAsset when there is none
find_asset(assets, name) ==
    LET hit == {i \in 1..Len(assets) : assets[i].name = name}
    IN  IF hit = {} THEN NoAsset ELSE MinOf(hit)

possible_suffixes == <<".sha256", ".sha256sum", ".sha256.txt", ".sha256sums">>

\* tokens whose lower-case form contains "sha" or "checksum"
ShaOrChecksumToks ==
    {".sha256", ".sha256sum", ".sha256.txt", ".sha256sums", "SHA256SUMS", "checksums.txt"}

IsChecksumName(name) ==
    Truthy(name) /\ \E i \in 1..Len(name) : name[i] \in ShaOrChecksumToks

\* ------------------------------------------------- vendor manifest
GcsKeys == {<<"linux-x64">>, <<"linux-arm64">>, <<"darwin-x64">>, <<"darwin-arm64">>}

\* what manifest["platforms"][key] can be; a dict is its "checksum" string
InfoAbsent == <<"#absent">>

InfoNotDict == <<"#notdict">>

\* lines 81-91: the platforms whose info is a dict with a non-empty checksum
ChecksumsOf(platforms) ==
    [k \in GcsKeys |->
        IF platforms[k] \in {InfoAbsent, InfoNotDict} THEN <<>> ELSE platforms[k]]

\* --------------------------------------------------------------- inputs
\* the recipe files the run can find on disk
OldSha == <<"hex64_old">>

Pfx == "https://github.com/o/r/releases/download/v"

Entry(if_cond, url) == [cond |-> if_cond, url |-> url, sha256 |-> OldSha]

NoRepo == <<"", "">>

EmptyDoc == [version |-> None, repository |-> NoRepo, gcs_base |-> FALSE, source |-> <<>>]

DocHatchet ==
    [version |-> <<"1">>, repository |-> <<"hatchet-dev", "Hatchet">>, gcs_base |-> FALSE,
     source |-> << Entry({"linux", "x86_64"},
                         <<Pfx, VersionTok, "/", "hatchet_", VersionTok, "_Linux_x86_64.tar.gz">>),
                   Entry({}, <<Pfx, VersionTok, "/", "gemini.js">>) >>]

DocTool ==
    [version |-> <<"1">>, repository |-> <<"o", "tool">>, gcs_base |-> FALSE,
     source |-> << Entry({"linux", "x86_64"}, <<Pfx, VersionTok, "/", "tool-", VersionTok, ".tar.gz">>),
                   Entry({"linux", "aarch64"}, <<Pfx, VersionTok, "/", "tool-", "${{ arch }}", ".tar.gz">>) >>]

DocGcs ==
    [version |-> <<"1">>, repository |-> <<"anthropics", "claude-code">>, gcs_base |-> FALSE,
     source |-> << Entry({"osx", "arm64"},
                         <<CLAUDE_CODE_GCS_BUCKET, "/", VersionTok, "/", "darwin-arm64", "/", "claude">>),
                   Entry({"linux", "x86_64"}, <<>>),
                   Entry({"linux", "x86_64"}, <<Pfx, VersionTok, "/", "tool-", VersionTok, ".tar.gz">>) >>]

DocGcsCtx ==
    [version |-> <<"1">>, repository |-> <<"anthropics", "claude-code">>, gcs_base |-> TRUE,
     source |-> << Entry({"linux", "x86_64"},
                         <<"${{ gcs_base }}", "/", VersionTok, "/", "linux-x64", "/", "claude">>),
                   Entry({"win"},
                         <<"${{ gcs_base }}", "/", VersionTok, "/", "win32-x64", "/", "claude.exe">>) >>]

DocNoRepo == [DocTool EXCEPT !.repository = NoRepo]

DocCurrent == [DocTool EXCEPT !.version = <<"2">>]

\* sources with no if-condition
DocPlain ==
    [version |-> <<"1">>, repository |-> <<"o", "tool">>, gcs_base |-> FALSE,
     source |-> << Entry({}, <<Pfx, VersionTok, "/", "tool-", VersionTok, ".tar.gz">>),
                   Entry({}, <<Pfx, VersionTok, "/", "tool-", "${{ arch }}", ".tar.gz">>) >>]

\* yaml.safe_load gives a number for an unquoted numeric scalar (version: 2);
\* a number is never equal to a str
YamlNum(text) == <<"#num">> \o text

\* the pin is the number 2
DocNumber ==
    [version |-> YamlNum(<<"2">>), repository |-> <<"o", "tool">>, gcs_base |-> FALSE,
     source |-> << Entry({"linux", "x86_64"},
                         <<Pfx, VersionTok, "/", "tool-", VersionTok, ".tar.gz">>) >>]

RecipeDocs ==
    {DocHatchet, DocTool, DocGcs, DocGcsCtx, DocNoRepo, DocCurrent, DocPlain, DocNumber}

\* what the release API can answer
Tags == {None, <<"v", "2">>}

Digests ==
    { None,
      <<"sha256", ":", "hex64_d">>,
      <<"SHA256", ":", "HEX64_D">>,
      <<"sha512", ":", "hex128">> }

MainNames ==
    { <<"hatchet_", "2", "_Linux_x86_64.tar.gz">>,
      <<"tool-", "2", ".tar.gz">>,
      <<"gemini.js">> }

Asset(name, url, digest) == [name |-> name, url |-> url, digest |-> digest]

SideLists(n) ==
    { <<>>,
      << Asset(n \o <<".sha256">>, TRUE, None) >>,
      << Asset(n \o <<".sha256sums">>, FALSE, None), Asset(<<"checksums.txt">>, TRUE, None) >> }

AssetLists ==
    {<<>>} \cup
    UNION { { <<Asset(n, u, d)>> \o side : side \in SideLists(n) } :
            n \in MainNames, u \in BOOLEAN, d \in Digests }

\* raise: the call raised (connection error, timeout, bad status, bad JSON)
ReleaseResponses ==
    {[raise |-> TRUE, tag |-> None, assets |-> <<>>]} \cup
    {[raise |-> FALSE, tag |-> None, assets |-> <<>>]} \cup
    {[raise |-> FALSE, tag |-> t, assets |-> a] : t \in Tags \ {None}, a \in AssetLists} \cup
    {[raise |-> FALSE, tag |-> <<"v", "v", "2">>, assets |-> <<>>]}

\* what fetching a checksum file can answer: .text is a sequence of lines
Texts(fn) ==
    { <<>>,
      << <<"hex64_f", " ", " ">> \o fn >>,
      << <<"hex64_g", " ", "other.tar.gz">>, <<" ">> >>,
      << fn >>,
      << <<"HEX64_F", " ">> \o fn >>,
      << <<" ">>, <<"hex64_g", " ", "my-">> \o fn >> }

FetchResponses(fn) ==
    {[raise |-> TRUE, text |-> <<>>]} \cup {[raise |-> FALSE, text |-> t] : t \in Texts(fn)}

\* what downloading the asset can answer
DownloadResponses == {"raise", "status", "ok"}

\* what the vendor manifest can answer
\* <<info of linux-x64, info of darwin-arm64>>; the other platforms are absent
InfoPairs ==
    { <<InfoAbsent, InfoAbsent>>,
      <<<<"hex64_m">>, <<"hex64_n">>>>,
      <<InfoNotDict, <<>>>>,
      <<<<>>, InfoNotDict>>,
      <<<<"BADSUM">>, <<"hex64_m">>>> }

ManifestResponses ==
    {[raise |-> TRUE, platforms |-> [k \in GcsKeys |-> InfoAbsent]]} \cup
    {[raise |-> FALSE,
      platforms |-> [k \in GcsKeys |->
                        IF k = <<"linux-x64">> THEN p[1]
                        ELSE IF k = <<"darwin-arm64">> THEN p[2] ELSE InfoAbsent]] :
        p \in InfoPairs}

\* the command lines
OwnerRepoArgs == {NoRepo, <<"cli-owner", "hatchet">>}

Paths == 1..MaxRecipes

\* glob.glob: the recipe files found come in any order
RECURSIVE Perms(_)
Perms(S) ==
    IF S = {} THEN {<<>>}
    ELSE UNION { {<<x>> \o p : p \in Perms(S \ {x})} : x \in S }

GlobResults(S) == Perms(S)

\* sorted(files)
RECURSIVE Insert(_, _)
Insert(x, s) ==
    IF s = <<>> THEN <<x>>
    ELSE IF x <= Head(s) THEN <<x>> \o s ELSE <<Head(s)>> \o Insert(x, Tail(s))

RECURSIVE SortFiles(_)
SortFiles(s) == IF s = <<>> THEN <<>> ELSE Insert(Head(s), SortFiles(Tail(s)))

sorted(files) == SortFiles(files)

\* --------------------------------------------------------------- state
VARIABLES
    args,           \* the parsed command line: apply, dry_run, recipe, owner, repo
    pc,             \* where the run is
    dry,            \* main's dry
    files,          \* the recipe files glob.glob found
    queue,          \* the sorted files still to process
    attempts,       \* the recipe files update_single_recipe was called on, in order
    lastRun,        \* how the last call ended
    cur,            \* recipe_path of the call in progress
    raw,            \* the content of that file when it was read
    file,           \* the content of that file now
    doc,            \* the document in memory
    owner, repo,    \* the effective owner and repository
    tag, version,   \* the release tag and the version derived from it
    assets,         \* the release's assets
    manifest,       \* the vendor manifest's platforms, as fetched
    gcs_checksums,  \* [fetched, sums]: None, or the checksums of the manifest
    srcIdx,         \* the source entry being processed
    assetIdx,       \* compute_sha_for_asset: the asset
    sfx,            \* compute_sha_for_asset: the suffix being tried
    scanIdx,        \* compute_sha_for_asset: the release asset being scanned
    http,           \* the requests made for the current entry
    sawHit,         \* a fetched checksum file had a line ending with the asset name
    last,           \* what happened to the entry processed last in this call
    \* scripts/build.py
    bargs,          \* the builder's command line: build_flag, upload_flag, skip_existing
    benv,           \* the environment: token (PREFIX_API_KEY), summary (GITHUB_STEP_SUMMARY)
    bpc,            \* where the builder is
    jobs,           \* the recipe/platform pairs still to build
    job,            \* the pair build_recipe is running for
    output,         \* the package files of the output directory
    events,         \* the subprocesses run and summary lines written for this pair
    bstatus         \* how build_recipe ended for this pair

buildVars == <<bargs, benv, bpc, jobs, job, output, events, bstatus>>

vars ==
    <<bargs, benv, bpc, jobs, job, output, events, bstatus, args, pc, dry, files, queue, attempts, lastRun, cur, raw, file, doc,
      owner, repo, tag, version, assets, manifest, gcs_checksums, srcIdx, assetIdx,
      sfx, scanIdx, http, sawHit, last>>

callVars ==
    <<doc, owner, repo, tag, version, assets, manifest, gcs_checksums, srcIdx,
      assetIdx, sfx, scanIdx, http, sawHit, last>>

\* --------------------------------------------------------------- builder inputs
\* a recipe: its directory name, package.name ("" when absent), context.version;
\* readable is FALSE when reading or parsing it raises
BuildRecipes ==
    << [dir |-> "hatchet-cli", name |-> "", version |-> <<"1">>, readable |-> TRUE],
       [dir |-> "claude", name |-> "claude-code", version |-> <<"2">>, readable |-> TRUE],
       [dir |-> "broken", name |-> "", version |-> <<"1">>, readable |-> FALSE] >>

Platforms == {"linux-64", "osx-arm64"}

\* a package file output/<plat>/<fname>; pkg and ver say what it holds
PkgFile(plat, pkg, ver, build) ==
    [plat |-> plat, pkg |-> pkg, ver |-> ver,
     fname |-> <<pkg, "-">> \o ver \o <<"-">> \o build \o <<".conda">>]

\* the build string rattler-build gives: <hash>_<build number>
StdBuild == <<"h1a2b3c", "_", "0">>

OutputFiles ==
    { PkgFile("linux-64", "hatchet-cli", <<"1">>, StdBuild),
      PkgFile("osx-arm64", "hatchet-cli", <<"1">>, StdBuild),
      PkgFile("linux-64", "hatchet-cli", <<"0">>, StdBuild),
      PkgFile("linux-64", "claude-code", <<"2">>, <<"custom">>) }

\* no entry has been processed yet
NoOutcome ==
    [idx |-> 0, diag |-> "none", prov |-> "none", looked |-> FALSE, expected |-> None,
     asset |-> NoAsset, err |-> "", http |-> <<>>, sawHit |-> FALSE, before |-> None,
     after |-> None]

\* no call has ended yet
NoRun == [path |-> 0, status |-> "none"]

NoSums == [k \in GcsKeys |-> <<>>]

NoPlatforms == [k \in GcsKeys |-> InfoAbsent]

ResetCall ==
    /\ doc' = EmptyDoc
    /\ owner' = ""
    /\ repo' = ""
    /\ tag' = None
    /\ version' = None
    /\ assets' = <<>>
    /\ manifest' = NoPlatforms
    /\ gcs_checksums' = [fetched |-> FALSE, sums |-> NoSums]
    /\ srcIdx' = 0
    /\ assetIdx' = NoAsset
    /\ sfx' = 0
    /\ scanIdx' = 0
    /\ http' = <<>>
    /\ sawHit' = FALSE
    /\ last' = NoOutcome

NoJob == [recipe |-> 0, target |-> ""]

\* the builder before it starts
BuildIdle ==
    /\ bargs = [build_flag |-> FALSE, upload_flag |-> FALSE, skip_existing |-> FALSE]
    /\ benv = [token |-> FALSE, summary |-> FALSE]
    /\ bpc = "idle"
    /\ jobs = <<>>
    /\ job = NoJob
    /\ output = {}
    /\ events = <<>>
    /\ bstatus = "none"

\* the updater's variables before main runs
UpdateLocals ==
    /\ dry = FALSE
    /\ files = {}
    /\ queue = <<>>
    /\ attempts = <<>>
    /\ lastRun = NoRun
    /\ cur = 0
    /\ raw = EmptyDoc
    /\ file = EmptyDoc
    /\ doc = EmptyDoc
    /\ owner = ""
    /\ repo = ""
    /\ tag = None
    /\ version = None
    /\ assets = <<>>
    /\ manifest = NoPlatforms
    /\ gcs_checksums = [fetched |-> FALSE, sums |-> NoSums]
    /\ srcIdx = 0
    /\ assetIdx = NoAsset
    /\ sfx = 0
    /\ scanIdx = 0
    /\ http = <<>>
    /\ sawHit = FALSE
    /\ last = NoOutcome

UpdateIdle ==
    /\ args = [apply |-> FALSE, dry_run |-> FALSE, recipe |-> 0, owner_repo |-> NoRepo]
    /\ pc = "idle"
    /\ UpdateLocals

\* scripts/update.py starts (parse_args, lines 30-37)
Init ==
    /\ args \in [apply : BOOLEAN, dry_run : BOOLEAN, recipe : {0, 1},
                 owner_repo : OwnerRepoArgs]
    /\ pc = "main"
    /\ UpdateLocals
    /\ BuildIdle

\* --------------------------------------------------------------- main
dry_run_only(apply, dry_run) == dry_run

\* line 410: dry = args.dry_run or not apply
DryOf(apply, dry_run) == dry_run \/ ~apply

\* lines 421-425: a recipe path was given
MainSingle ==
    /\ pc = "main"
    /\ args.recipe # 0
    /\ dry' = DryOf(args.apply, args.dry_run)
    /\ cur' = args.recipe
    /\ attempts' = Append(attempts, args.recipe)
    /\ pc' = "update"
    /\ UNCHANGED buildVars
    /\ UNCHANGED <<args, files, queue, lastRun, raw, file>>
    /\ UNCHANGED callVars

\* lines 427-436: no recipe path, every recipes/*/recipe.yaml in sorted order
MainBatch ==
    /\ pc = "main"
    /\ args.recipe = 0
    /\ dry' = DryOf(args.apply, args.dry_run)
    /\ \E S \in SUBSET Paths : \E globbed \in GlobResults(S) :
        /\ files' = S
        /\ queue' = sorted(globbed)
        /\ pc' = IF globbed = <<>> THEN "done" ELSE "batch"
    /\ UNCHANGED buildVars
    /\ UNCHANGED <<args, attempts, lastRun, cur, raw, file>>
    /\ UNCHANGED callVars

\* line 436-438: the loop takes the next file
BatchNext ==
    /\ pc = "batch"
    /\ queue # <<>>
    /\ cur' = Head(queue)
    /\ queue' = Tail(queue)
    /\ attempts' = Append(attempts, Head(queue))
    /\ raw' = EmptyDoc
    /\ file' = EmptyDoc
    /\ lastRun' = NoRun
    /\ pc' = "update"
    /\ UNCHANGED buildVars
    /\ UNCHANGED <<args, dry, files>>
    /\ UNCHANGED callVars

\* the loop is over
BatchEnd ==
    /\ pc = "batch"
    /\ queue = <<>>
    /\ pc' = "done"
    /\ UNCHANGED buildVars
    /\ UNCHANGED <<args, dry, files, queue, attempts, lastRun, cur, raw, file>>
    /\ UNCHANGED callVars

exception_propagates(batch) == "crashed"

\* lines 437-440 catch what a call raises in batch mode; line 424 does not
on_exception(batch) == IF batch THEN "batch" ELSE "crashed"

on_return(batch) == IF batch THEN "batch" ELSE "done"

\* update_single_recipe is left, by return or by an exception
Leave(status, raised) ==
    /\ lastRun' = [path |-> cur, status |-> status]
    /\ pc' = IF raised THEN on_exception(args.recipe = 0) ELSE on_return(args.recipe = 0)
    /\ ResetCall

\* --------------------------------------------------------------- update_single_recipe
\* lines 263-304: read the recipe, find the release, compare and set the version
UpdateBegin ==
    /\ pc = "update"
    /\ \E content \in RecipeDocs, rel \in ReleaseResponses :
        LET parsed == content.repository
            o == IF parsed # NoRepo THEN parsed[1] ELSE args.owner_repo[1]
            r == IF parsed # NoRepo THEN parsed[2] ELSE args.owner_repo[2]
            v == LStripV(rel.tag)
        IN  /\ raw' = content
            /\ file' = content
            /\ IF o = "" \/ r = ""
               THEN Leave("no_repo", FALSE)
               ELSE IF rel.raise
               THEN Leave("raised", TRUE)
               ELSE IF ~Truthy(rel.tag)
               THEN Leave("no_tag", FALSE)
               ELSE IF content.version = v
               THEN Leave("current", FALSE)
               ELSE /\ doc' = [content EXCEPT !.version = v]
                    /\ owner' = o
                    /\ repo' = r
                    /\ tag' = rel.tag
                    /\ version' = v
                    /\ assets' = rel.assets
                    /\ srcIdx' = 1
                    /\ pc' = "entry"
                    /\ UNCHANGED <<lastRun, manifest, gcs_checksums, assetIdx, sfx, scanIdx,
                                   http, sawHit, last>>
    /\ UNCHANGED buildVars
    /\ UNCHANGED <<args, dry, files, queue, attempts, cur>>

Request(kind, target) == [kind |-> kind, target |-> target]

\* the entry at srcIdx is finished: o says how
EntryDone(o) ==
    /\ doc' = IF o.written THEN [doc EXCEPT !.source[srcIdx].sha256 = o.sha] ELSE doc
    /\ last' =          [idx |-> srcIdx,
                           diag |-> o.diag,
                           prov |-> o.prov,
                           looked |-> o.looked,
                           expected |-> o.expected,
                           asset |-> o.asset,
                           err |-> o.err,
                           http |-> o.http,
                           sawHit |-> o.sawHit,
                           before |-> doc.source[srcIdx].sha256,
                           after |-> IF o.written THEN o.sha
                                     ELSE doc.source[srcIdx].sha256]
    /\ srcIdx' = srcIdx + 1
    /\ pc' = "entry"
    /\ assetIdx' = NoAsset
    /\ sfx' = 0
    /\ scanIdx' = 0
    /\ http' = <<>>
    /\ sawHit' = FALSE

Quiet(diag) ==
    [diag |-> diag, prov |-> "none", written |-> FALSE, sha |-> None, looked |-> FALSE,
     expected |-> None, asset |-> NoAsset, err |-> "", http |-> <<>>, sawHit |-> FALSE]

\* lines 342-346
is_gcs_source(recipe_url, ctx_is_bucket) ==
    (\E i \in 1..Len(recipe_url) : recipe_url[i] = CLAUDE_CODE_GCS_BUCKET) \/ ctx_is_bucket

\* lines 349-354: get_gcs_checksums, {} when it raises
FetchGcsChecksums(resp) == IF resp.raise THEN NoSums ELSE ChecksumsOf(resp.platforms)

\* lines 347-362
GcsEntry(item) ==
    \E resp \in IF gcs_checksums.fetched THEN {CHOOSE m \in ManifestResponses : m.raise}
                 ELSE ManifestResponses :
        LET sums == IF gcs_checksums.fetched THEN gcs_checksums.sums
                    ELSE FetchGcsChecksums(resp)
            reqs == IF gcs_checksums.fetched THEN <<>>
                    ELSE <<Request("manifest", version)>>
            gcs_platform == gcs_platform_for_if_cond(item.cond)
            found == Truthy(gcs_platform) /\ Truthy(sums[gcs_platform])
        IN  /\ gcs_checksums' = [fetched |-> TRUE, sums |-> sums]
            /\ manifest' = IF gcs_checksums.fetched \/ resp.raise THEN manifest
                           ELSE resp.platforms
            /\ EntryDone([Quiet(IF found THEN "gcs_using" ELSE "gcs_not_found")
                            EXCEPT !.prov = IF found THEN "gcs" ELSE "none",
                                   !.written = found,
                                   !.sha = IF found THEN sums[gcs_platform] ELSE None,
                                   !.http = reqs])

\* lines 364-391 up to the inline digest of compute_sha_for_asset (190-196)
AssetEntry(item) ==
    \E exp \in {ResolveExpected(item.cond, tag, version, repo, item.url)} :
    \E a \in {IF Truthy(exp) THEN find_asset(assets, exp) ELSE NoAsset} :
    \E got \in {IF a # NoAsset /\ Truthy(assets[a].digest)
                 THEN DigestMatch(assets[a].digest) ELSE None} :
        IF ~Truthy(exp)
        THEN EntryDone(Quiet("no_name")) /\ UNCHANGED <<manifest, gcs_checksums>>
        ELSE IF a = NoAsset
        THEN /\ EntryDone([Quiet("no_asset") EXCEPT !.looked = TRUE, !.expected = exp])
             /\ UNCHANGED <<manifest, gcs_checksums>>
        ELSE IF got # None
        THEN /\ EntryDone([Quiet("using") EXCEPT !.looked = TRUE, !.expected = exp,
                                                  !.asset = a, !.prov = "digest",
                                                  !.written = TRUE, !.sha = got])
             /\ UNCHANGED <<manifest, gcs_checksums>>
        ELSE /\ assetIdx' = a
             /\ sfx' = 1
             /\ pc' = "suffix"
             /\ last' = NoOutcome
             /\ UNCHANGED <<doc, srcIdx, scanIdx, http, sawHit, manifest,
                            gcs_checksums>>

\* one source item (lines 329-391)
EntryStep ==
    /\ pc = "entry"
    /\ srcIdx <= Len(doc.source)
    /\ LET item == doc.source[srcIdx]
       IN  IF ~Truthy(item.url)
           THEN EntryDone(Quiet("no_url")) /\ UNCHANGED <<manifest, gcs_checksums>>
           ELSE IF is_gcs_source(item.url, doc.gcs_base)
           THEN GcsEntry(item)
           ELSE AssetEntry(item)
    /\ UNCHANGED buildVars
    /\ UNCHANGED <<args, dry, files, queue, attempts, lastRun, cur, raw, file,
                   owner, repo, tag, version, assets>>

\* --------------------------------------------------------------- compute_sha_for_asset
\* a line of the text ends with the file name
TextNames(fn, txt) ==
    \E i \in 1..Len(txt) : Strip(txt[i]) # <<>> /\ EndsWith(Strip(txt[i]), fn)

ShaOutcome(diag) ==
    [Quiet(diag) EXCEPT !.looked = TRUE,
                        !.expected = assets[assetIdx].name,
                        !.asset = assetIdx,
                        !.http = http,
                        !.sawHit = sawHit]

\* a checksum file was fetched (lines 210-213, 221-224); stage is where
Fetched(resp, cand, stage) ==
    LET fn == assets[assetIdx].name
        got == digest_from_checksum_txt(fn, resp.text)
        reqs == Append(http, Request("checksum", cand))
    IN  IF resp.raise
        THEN EntryDone([ShaOutcome("failed") EXCEPT !.err = stage, !.http = reqs])
        ELSE EntryDone([ShaOutcome("using") EXCEPT !.prov = "file", !.written = TRUE,
                                                    !.sha = got, !.http = reqs,
                                                    !.sawHit = TRUE])

SuffixAdvance ==
    /\ IF sfx < Len(possible_suffixes)
       THEN sfx' = sfx + 1 /\ pc' = "suffix" /\ scanIdx' = scanIdx
       ELSE sfx' = 0 /\ pc' = "scan" /\ scanIdx' = 1
    /\ UNCHANGED <<doc, last, srcIdx, assetIdx>>

\* lines 205-213: one suffix
SuffixStep ==
    /\ pc = "suffix"
    /\ LET fn == assets[assetIdx].name
           candidate == find_asset(assets, fn \o <<possible_suffixes[sfx]>>)
       IN  IF candidate # NoAsset /\ assets[candidate].url
           THEN \E resp \in FetchResponses(fn) :
                   IF resp.raise \/ Truthy(digest_from_checksum_txt(fn, resp.text))
                   THEN Fetched(resp, candidate, "suffix")
                   ELSE /\ http' = Append(http, Request("checksum", candidate))
                        /\ sawHit' = (sawHit \/ TextNames(fn, resp.text))
                        /\ SuffixAdvance
           ELSE SuffixAdvance /\ UNCHANGED <<http, sawHit>>
    /\ UNCHANGED buildVars
    /\ UNCHANGED <<args, dry, files, queue, attempts, lastRun, cur, raw, file,
                   owner, repo, tag, version, assets, manifest, gcs_checksums>>

ScanAdvance ==
    /\ IF scanIdx < Len(assets)
       THEN scanIdx' = scanIdx + 1 /\ pc' = "scan"
       ELSE scanIdx' = 0 /\ pc' = "download"
    /\ UNCHANGED <<doc, last, srcIdx, assetIdx, sfx>>

\* lines 216-224: one release asset
ScanStep ==
    /\ pc = "scan"
    /\ LET fn == assets[assetIdx].name
           cand == assets[scanIdx]
       IN  IF IsChecksumName(cand.name) /\ cand.url
           THEN \E resp \in FetchResponses(fn) :
                   IF resp.raise \/ Truthy(digest_from_checksum_txt(fn, resp.text))
                   THEN Fetched(resp, scanIdx, "scan")
                   ELSE /\ http' = Append(http, Request("checksum", scanIdx))
                        /\ sawHit' = (sawHit \/ TextNames(fn, resp.text))
                        /\ ScanAdvance
           ELSE ScanAdvance /\ UNCHANGED <<http, sawHit>>
    /\ UNCHANGED buildVars
    /\ UNCHANGED <<args, dry, files, queue, attempts, lastRun, cur, raw, file,
                   owner, repo, tag, version, assets, manifest, gcs_checksums>>

\* lines 226-232: download the asset and hash it
DownloadStep ==
    /\ pc = "download"
    /\ IF ~assets[assetIdx].url
       THEN EntryDone([ShaOutcome("failed") EXCEPT !.err = "no_url"])
       ELSE \E resp \in DownloadResponses :
               LET reqs == Append(http, Request("download", assetIdx))
               IN  IF resp = "ok"
                   THEN EntryDone([ShaOutcome("using") EXCEPT
                                      !.prov = "download", !.written = TRUE,
                                      !.sha = sha256_hex_bytes(assetIdx), !.http = reqs])
                   ELSE EntryDone([ShaOutcome("failed") EXCEPT !.err = "download",
                                                                !.http = reqs])
    /\ UNCHANGED buildVars
    /\ UNCHANGED <<args, dry, files, queue, attempts, lastRun, cur, raw, file,
                   owner, repo, tag, version, assets, manifest, gcs_checksums>>

\* lines 393-404: dump the document; write it unless dry
Finish ==
    /\ pc = "entry"
    /\ srcIdx > Len(doc.source)
    /\ IF dry
       THEN /\ Leave("dry", FALSE)
            /\ UNCHANGED file
       ELSE /\ file' = doc
            /\ Leave("wrote", FALSE)
    /\ UNCHANGED buildVars
    /\ UNCHANGED <<args, dry, files, queue, attempts, cur, raw>>

Next ==
    \/ MainSingle
    \/ MainBatch
    \/ BatchNext
    \/ BatchEnd
    \/ UpdateBegin
    \/ EntryStep
    \/ SuffixStep
    \/ ScanStep
    \/ DownloadStep
    \/ Finish

Spec == Init /\ [][Next]_vars

\* the script runs on until it ends: no step of it waits for anything
FairSpec == Spec /\ WF_vars(Next)

\* --------------------------------------------------------------- scripts/build.py
\* the recipe lists find_recipes can return and the platform lists of the command line
RecipeLists == {<<1>>, <<1, 2>>, <<3, 1>>}

PlatformLists == {<<"linux-64">>, <<"linux-64", "osx-arm64">>}

\* scripts/build.py starts (main, lines 174-190)
BuildInit ==
    /\ bargs \in [build_flag : BOOLEAN, upload_flag : BOOLEAN, skip_existing : BOOLEAN]
    /\ benv \in [token : BOOLEAN, summary : BOOLEAN]
    /\ output \in SUBSET OutputFiles
    /\ bpc = "main"
    /\ jobs = <<>>
    /\ job = NoJob
    /\ events = <<>>
    /\ bstatus = "none"
    /\ UpdateIdle

RECURSIVE Pairs(_, _)
Pairs(recipes, platforms) ==
    IF recipes = <<>> THEN <<>>
    ELSE [i \in 1..Len(platforms) |-> [recipe |-> Head(recipes), target |-> platforms[i]]]
         \o Pairs(Tail(recipes), platforms)

\* the file name matches <name>-<version>-*_*.conda
GlobMatches(fname, name, ver) ==
    LET pre == <<name, "-">> \o ver \o <<"-">>
    IN  /\ StartsWith(fname, pre)
        /\ EndsWith(fname, <<".conda">>)
        /\ \E i \in (Len(pre) + 1)..(Len(fname) - 1) : fname[i] = "_"

Matching(dir, target_platform, name, ver) ==
    {f \in dir : f.plat = target_platform /\ GlobMatches(f.fname, name, ver)}

package_never_exists(dir, target_platform, name, ver) == FALSE

\* lines 65-72
package_exists_locally(dir, target_platform, name, ver) ==
    Matching(dir, target_platform, name, ver) # {}

never_fails(check, returncode) == FALSE

\* line 47: run raises
RunFails(check, returncode) == check /\ returncode # 0

\* lines 88-89
PackageName(r) == IF r.name # "" THEN r.name ELSE r.dir

\* lines 192-196: the pairs, recipe by recipe
BuildMain ==
    /\ bpc = "main"
    /\ \E recipes \in RecipeLists, platforms \in PlatformLists :
        jobs' = Pairs(recipes, platforms)
    /\ bpc' = "loop"
    /\ UNCHANGED <<bargs, benv, job, output, events, bstatus>>
    /\ UNCHANGED <<args, pc>> /\ UNCHANGED <<dry, files, queue, attempts, lastRun, cur, raw, file>>
    /\ UNCHANGED callVars

\* lines 195-197: build_recipe is called for the next pair
BuildNextJob ==
    /\ bpc = "loop"
    /\ jobs # <<>>
    /\ job' = Head(jobs)
    /\ jobs' = Tail(jobs)
    /\ events' = <<>>
    /\ bstatus' = "running"
    /\ bpc' = "prepare"
    /\ UNCHANGED <<bargs, benv, output>>
    /\ UNCHANGED <<args, pc>> /\ UNCHANGED <<dry, files, queue, attempts, lastRun, cur, raw, file>>
    /\ UNCHANGED callVars

BuildLoopEnd ==
    /\ bpc = "loop"
    /\ jobs = <<>>
    /\ bpc' = "done"
    /\ UNCHANGED <<bargs, benv, jobs, job, output, events, bstatus>>
    /\ UNCHANGED <<args, pc>> /\ UNCHANGED <<dry, files, queue, attempts, lastRun, cur, raw, file>>
    /\ UNCHANGED callVars

\* build_recipe returns; main goes on
Returned == bstatus' = "returned" /\ bpc' = "loop"

\* build_recipe raises (lines 165-169); main does not catch it
Raised == bstatus' = "raised" /\ bpc' = "crashed"

\* lines 83-108: the generated recipe, and the local check
BuildPrepare ==
    /\ bpc = "prepare"
    /\ LET r == BuildRecipes[job.recipe]
       IN  IF ~r.readable
           THEN Raised
           ELSE IF ~bargs.build_flag
           THEN Returned
           ELSE IF bargs.skip_existing
                   /\ package_exists_locally(output, job.target, PackageName(r), r.version)
           THEN Returned
           ELSE bstatus' = bstatus /\ bpc' = "build"
    /\ UNCHANGED <<bargs, benv, jobs, job, output, events>>
    /\ UNCHANGED <<args, pc>> /\ UNCHANGED <<dry, files, queue, attempts, lastRun, cur, raw, file>>
    /\ UNCHANGED callVars

\* lines 110-148: the build tool runs; produced says whether it left a package
BuildRun ==
    /\ bpc = "build"
    /\ \E returncode \in {0, 1}, produced \in BOOLEAN :
        LET r == BuildRecipes[job.recipe]
            out == IF returncode = 0 /\ produced
                   THEN output \cup {PkgFile(job.target, PackageName(r), r.version, StdBuild)}
                   ELSE output
        IN  /\ events' = Append(events, [cmd |-> "build", rc |-> returncode])
            /\ output' = out
            /\ IF RunFails(TRUE, returncode)
               THEN Raised
               ELSE IF ~bargs.upload_flag
               THEN Returned
               ELSE IF ~benv.token
               THEN Returned
               ELSE IF Matching(out, job.target, PackageName(r), r.version) = {}
               THEN Returned
               ELSE bstatus' = bstatus /\ bpc' = "upload"
    /\ UNCHANGED <<bargs, benv, jobs, job>>
    /\ UNCHANGED <<args, pc>> /\ UNCHANGED <<dry, files, queue, attempts, lastRun, cur, raw, file>>
    /\ UNCHANGED callVars

\* lines 149-163: the upload tool runs; the step summary gets its line
BuildUpload ==
    /\ bpc = "upload"
    /\ \E returncode \in {0, 1} :
        LET ran == Append(events, [cmd |-> "upload", rc |-> returncode])
        IN  IF RunFails(TRUE, returncode)
            THEN events' = ran /\ Raised
            ELSE /\ events' = IF benv.summary
                              THEN Append(ran, [cmd |-> "summary", rc |-> 0])
                              ELSE ran
                 /\ Returned
    /\ UNCHANGED <<bargs, benv, jobs, job, output>>
    /\ UNCHANGED <<args, pc>> /\ UNCHANGED <<dry, files, queue, attempts, lastRun, cur, raw, file>>
    /\ UNCHANGED callVars

BuildNext ==
    \/ BuildMain
    \/ BuildNextJob
    \/ BuildLoopEnd
    \/ BuildPrepare
    \/ BuildRun
    \/ BuildUpload

BuildSpec == BuildInit /\ [][BuildNext]_vars

\* --------------------------------------------------------------- properties
\* the entry processed last in the call in progress
Done == last.idx # 0

Item == raw.source[last.idx]

ItemIsGcs ==
    (\E i \in 1..Len(Item.url) : Item.url[i] = CLAUDE_CODE_GCS_BUCKET) \/ raw.gcs_base

\* the requests of one kind among reqs
OfKind(reqs, kind) == {i \in 1..Len(reqs) : reqs[i].kind = kind}

\* the digest reads sha256:<hash>, in either case, with or without the hyphen
ParsableDigest(d) ==
    d # None /\ Len(d) = 3 /\ d[1] \in {"sha256", "SHA256", "sha-256"} /\ d[2] = ":"

\* the release holds a checksum file for asset a: one named after it, or one
\* whose name holds "sha" or "checksum"
HasSidecar(a) ==
    \E k \in 1..Len(assets) :
        /\ k # a
        /\ \/ \E i \in 1..Len(possible_suffixes) :
                  assets[k].name = assets[a].name \o <<possible_suffixes[i]>>
           \/ \E i \in 1..Len(assets[k].name) :
                  assets[k].name[i] \in {"SHA256SUMS", "checksums.txt"}

InShaStage == pc \in {"suffix", "scan", "download"}

\* C1: a network error raised while a checksum file is fetched in the suffix
\* stage or the scan stage never ends the resolution for that asset: the
\* resolution goes on to the next stage.
C1_EarlyErrorFallsThrough ==
    ~(Done /\ last.diag = "failed" /\ last.err \in {"suffix", "scan"})

\* C2: an asset whose inline digest is parsable as a sha256-prefixed value
\* gets the digest's hash part, and no HTTP request is made for it, whatever
\* sidecar files and download URLs the release has.
C2_InlineDigestNoHttp ==
    /\ InShaStage => ~ParsableDigest(assets[assetIdx].digest)
    /\ (Done /\ last.asset # NoAsset /\ ParsableDigest(assets[last.asset].digest)) =>
          /\ last.diag = "using"
          /\ last.after = <<assets[last.asset].digest[3]>>
          /\ doc.source[last.idx].sha256 = last.after
          /\ last.http = <<>>

C2_Witness ==
    /\ Done
    /\ last.prov = "digest"
    /\ HasSidecar(last.asset)
    /\ assets[last.asset].url
    /\ last.http = <<>>

\* C3 as stated: the asset is downloaded only when it has no inline digest and
\* the release holds no checksum sidecar file for it.
C3_DownloadOnlyWithoutDigestOrSidecar ==
    (Done /\ last.asset # NoAsset /\ OfKind(last.http, "download") # {}) =>
        /\ assets[last.asset].digest = None
        /\ ~HasSidecar(last.asset)

\* C3 amended: the asset is downloaded only when its inline digest is not
\* parsable as a sha256-prefixed value and no checksum file fetched for it held
\* a line ending with its name; a parsable digest or such a line rules the
\* download out.
C3_DownloadOnlyAfterNoHash ==
    /\ pc = "download" => ~ParsableDigest(assets[assetIdx].digest) /\ ~sawHit
    /\ (Done /\ last.asset # NoAsset /\ OfKind(last.http, "download") # {}) =>
          /\ ~ParsableDigest(assets[last.asset].digest)
          /\ ~last.sawHit
          /\ OfKind(last.http, "download") = {Len(last.http)}

C3_Witness ==
    /\ Done
    /\ last.prov = "download"
    /\ HasSidecar(last.asset)
    /\ OfKind(last.http, "checksum") # {}
    /\ assets[last.asset].digest # None

\* every sha256 value the upstream can hand over: digests' hash parts, first
\* words of checksum-file lines, the hash of a download, manifest checksums
UpstreamValues ==
    {<<d[3]>> : d \in {x \in Digests : ParsableDigest(x)}}
    \cup UNION {{FirstPart(Strip(t[i])) : i \in {j \in 1..Len(t) : Strip(t[j]) # <<>>}} :
                t \in UNION {Texts(n) : n \in MainNames}}
    \cup {sha256_hex_bytes(0)}
    \cup UNION {{p[1], p[2]} : p \in InfoPairs}

\* C4: an entry for which no asset name can be derived, or whose derived name
\* no release asset has, keeps its sha256, gets a diagnostic, and the next
\* entry is processed; a sha256 is only ever set to a value that came from the
\* release or from the vendor manifest.
C4_UnresolvedEntryUnchanged ==
    /\ (Done /\ Truthy(Item.url) /\ ~ItemIsGcs) =>
          LET exp == ResolveExpected(Item.cond, tag, version, repo, Item.url)
          IN  (~Truthy(exp) \/ ~\E k \in 1..Len(assets) : assets[k].name = exp) =>
                  /\ doc.source[last.idx].sha256 = raw.source[last.idx].sha256
                  /\ last.diag = IF Truthy(exp) THEN "no_asset" ELSE "no_name"
                  /\ pc = "entry"
                  /\ srcIdx = last.idx + 1
    /\ \A i \in 1..Len(doc.source) :
          doc.source[i].sha256 # raw.source[i].sha256 =>
              /\ i < srcIdx
              /\ doc.source[i].sha256 \in UpstreamValues
              /\ (i = last.idx => last.prov \in {"digest", "file", "download", "gcs"})

C4_Witness ==
    /\ Done
    /\ last.idx = 2
    /\ last.diag = "using"
    /\ ~\E k \in 1..Len(assets) :
          assets[k].name = ResolveExpected(raw.source[1].cond, tag, version, repo,
                                           raw.source[1].url)
    /\ doc.source[1].sha256 = raw.source[1].sha256
    /\ doc.source[2].sha256 # raw.source[2].sha256

\* C5: every value written into a sha256 field is a 64-character lowercase
\* hexadecimal string.
C5_WrittenShaIsHex64 ==
    \A i \in 1..Len(doc.source) :
        doc.source[i].sha256 # raw.source[i].sha256 => IsSha256Hex(doc.source[i].sha256)

\* the platform key of a predicate, None when it has none
KeyOf(if_cond) ==
    LET keys == {k \in { <<"linux", "x86_64", "linux-x64">>,
                         <<"linux", "aarch64", "linux-arm64">>,
                         <<"osx", "x86_64", "darwin-x64">>,
                         <<"osx", "arm64", "darwin-arm64">> } :
                    k[1] \in if_cond /\ k[2] \in if_cond}
    IN  IF keys = {} THEN None ELSE <<(CHOOSE k \in keys : TRUE)[3]>>

\* the manifest's checksum for a key, <<>> when it gives none
ManifestChecksum(key) ==
    IF key = None \/ manifest[key] \in {InfoAbsent, InfoNotDict} THEN <<>> ELSE manifest[key]

\* C6: a vendor-manifest entry gets the manifest's checksum for the platform
\* key of its predicate, and is handled with no release-asset lookup, no
\* checksum-file fetch and no asset download; without a checksum for the key
\* its sha256 stays.
C6_GcsEntryFromManifest ==
    (Done /\ Truthy(Item.url) /\ ItemIsGcs) =>
        LET sum == ManifestChecksum(KeyOf(Item.cond))
        IN  /\ ~last.looked
            /\ OfKind(last.http, "checksum") = {}
            /\ OfKind(last.http, "download") = {}
            /\ doc.source[last.idx].sha256 =
                   IF sum # <<>> THEN sum ELSE raw.source[last.idx].sha256

C6_Witness ==
    /\ Done
    /\ last.prov = "gcs"
    /\ doc.source[last.idx].sha256 = <<"hex64_m">>
    /\ Len(assets) > 1

\* the output directory holds the package of the pair: same platform, name
\* and version
PackagePresent ==
    \E f \in output :
        /\ f.plat = job.target
        /\ f.pkg = PackageName(BuildRecipes[job.recipe])
        /\ f.ver = BuildRecipes[job.recipe].version
        /\ f.fname = <<f.pkg, "-">> \o f.ver \o <<"-">> \o StdBuild \o <<".conda">>

C8_SubprocessFailureAborts ==
    \A i \in 1..Len(events) :
        /\ (events[i].cmd \in {"build", "upload"} /\ events[i].rc # 0) =>
              i = Len(events) /\ bstatus = "raised" /\ bpc = "crashed"
        /\ events[i].cmd = "upload" =>
              i > 1 /\ events[i - 1] = [cmd |-> "build", rc |-> 0]
        /\ events[i].cmd = "summary" =>
              i > 1 /\ events[i - 1] = [cmd |-> "upload", rc |-> 0]

C8_Witness ==
    /\ bstatus = "raised"
    /\ benv.summary
    /\ events = <<[cmd |-> "build", rc |-> 0], [cmd |-> "upload", rc |-> 1]>>

\* the files of S in increasing order
Ascending(S) == CHOOSE s \in Perms(S) : \A i \in 1..(Len(s) - 1) : s[i] < s[i + 1]

\* C9: in batch mode every recipe file found is attempted exactly once, in
\* sorted order; an exception raised by one recipe's update is caught and the
\* batch goes on, so the run never crashes and eventually ends with every
\* recipe found, the last one included, attempted.
C9_BatchAttemptsEveryRecipe ==
    /\ []((args.recipe = 0 /\ pc # "main") =>
            /\ pc # "crashed"
            /\ attempts \o queue = Ascending(files)
            /\ pc = "done" => attempts = Ascending(files))
    /\ <>(args.recipe = 0 => (pc = "done" /\ attempts = Ascending(files)))

C9_Witness ==
    /\ args.recipe = 0
    /\ pc = "batch"
    /\ lastRun = [path |-> 1, status |-> "raised"]
    /\ queue = <<2>>

\* C10: the recipe file is rewritten only when apply is given; without apply,
\* or with apply and dry-run together, the file stays as it was read, whatever
\* the release holds.
C10_DryRunLeavesFile ==
    /\ (pc # "main" /\ ~args.apply) => dry
    /\ (~args.apply \/ args.dry_run) => (file = raw /\ lastRun.status # "wrote")

C10_Witness ==
    /\ args.apply
    /\ args.dry_run
    /\ lastRun.status = "dry"
    /\ file = raw
    /\ raw # EmptyDoc

\* the template holds a placeholder other than the version token
HoldsOtherPlaceholder(url) == \E i \in 1..Len(url) : url[i] \in BraceToks \ {VersionTok}

\* C11: for a URL template that holds a placeholder other than the version
\* token, the pattern-based resolution gives no name, whatever the predicate
\* and the version; and no name looked up in the release is taken from such a
\* template.
C11_NoNameFromUnresolvedTemplate ==
    /\ \A d \in RecipeDocs : \A i \in 1..Len(d.source) : \A v \in {None, <<"2">>} :
          HoldsOtherPlaceholder(d.source[i].url) =>
              asset_name_from_recipe_pattern(d.source[i].url, d.source[i].cond, v) = None
    /\ (Done /\ last.looked /\ HoldsOtherPlaceholder(Item.url)) =>
          ~EndsWith(Item.url, last.expected)

\* the tokens of url after its last "/"
TrailingSegment(url) ==
    LET sl == {i \in 1..Len(url) : url[i] = "/"}
        from == IF sl = {} THEN 1 ELSE (CHOOSE i \in sl : \A j \in sl : j <= i) + 1
    IN  SubSeq(url, from, Len(url))

\* seg with every version placeholder replaced by the tokens of v
RECURSIVE WithVersion(_, _)
WithVersion(seg, v) ==
    IF seg = <<>> THEN <<>>
    ELSE (IF Head(seg) = VersionTok THEN v ELSE <<Head(seg)>>) \o WithVersion(Tail(seg), v)

\* the trailing segment is an archive name: something, then .tar.gz or .zip
IsArchiveName(seg) == Len(seg) >= 2 /\ seg[Len(seg)] \in ArchiveExts

\* C12 as stated: for an entry with no if-condition the name looked up in the
\* release is the declared URL's trailing path segment, unchanged.
C12_UnconditionalNameIsRawSegment ==
    (Done /\ last.looked /\ Item.cond = {}) => last.expected = TrailingSegment(Item.url)

\* C12 amended: for an entry with no if-condition the name looked up in the
\* release is the URL's trailing path segment with the version placeholder
\* replaced by the new version when the URL holds no other placeholder and the
\* segment is an archive name (.tar.gz, .zip); otherwise it is the declared
\* URL's trailing path segment, unchanged.
C12_UnconditionalNameFromSegment ==
    (Done /\ last.looked /\ Item.cond = {}) =>
        last.expected =
            IF ~HoldsOtherPlaceholder(Item.url) /\ IsArchiveName(TrailingSegment(Item.url))
            THEN WithVersion(TrailingSegment(Item.url), version)
            ELSE TrailingSegment(Item.url)

C12_Witness ==
    /\ Done
    /\ Item.cond = {}
    /\ last.diag = "using"
    /\ last.expected = <<"tool-", "2", ".tar.gz">>
    /\ TrailingSegment(Item.url) = <<"tool-", VersionTok, ".tar.gz">>

\* update_single_recipe is past its release lookup (line 284) and works on the
\* source entries
InEntries == pc \in {"entry", "suffix", "scan", "download"}

\* C13: when owner and repo are passed on the command line, the release lookup
\* and the naming table use the passed values, whatever repository the recipe
\* names.
C13_PassedOwnerRepoUsed ==
    (InEntries /\ args.owner_repo # NoRepo) =>
        /\ owner = args.owner_repo[1]
        /\ repo = args.owner_repo[2]

\* the text of a YAML scalar: str(value)
Str(v) == IF v # <<>> /\ Head(v) = "#num" THEN Tail(v) ELSE v

\* a tag without its leading "v"s
RECURSIVE StripLeadingV(_)
StripLeadingV(t) == IF t # <<>> /\ Head(t) = "v" THEN StripLeadingV(Tail(t)) ELSE t

\* the document as read with no sha256 changed and the version set to v
Repinned(v) == [raw EXCEPT !.version = v]

\* the step that ends update_single_recipe after the last source entry
AtFinish == pc = "entry" /\ srcIdx > Len(doc.source)

\* C14, the written version: when the latest release differs from the pin and
\* apply is in effect, the recipe written carries the tag without its leading
\* "v" whatever the checksum resolution gave, and, when no entry resolved, the
\* sha256 values it had before.
C14_Written ==
    /\ InEntries => pc' \in {"entry", "suffix", "scan", "download", "batch", "done"}
    /\ (AtFinish /\ ~dry) =>
          /\ lastRun'.status = "wrote"
          /\ file'.version = StripLeadingV(tag)
          /\ file'.source = doc.source
          /\ (\A i \in 1..Len(doc.source) :
                 doc.source[i].sha256 = raw.source[i].sha256) =>
                     file' = Repinned(StripLeadingV(tag))

\* C14, the pin that is current: when the pinned version equals the latest
\* one, the run does not go on to the source entries (no checksum fetch) and
\* writes nothing.
C14_Current ==
    /\ (pc = "update" /\ InEntries') => Str(raw'.version) # StripLeadingV(tag')
    /\ lastRun'.status = "current" => (file' = raw' /\ http' = <<>>)

\* C14: both parts, at every step of the run.
C14_VersionFollowsRelease == [][C14_Written /\ C14_Current]_vars

====
